---------------------------- MODULE Spec2Model ----------------------------
(***************************************************************************)
(* A model of the architect_ai floor-plan editor (web/src/client).         *)
(*                                                                         *)
(* Conventions of the model:                                               *)
(*  - A JavaScript number is an exact rational [n, d] (d > 0, lowest       *)
(*    terms); the non-finite numbers (NaN, +-Infinity) are the one value   *)
(*    NaN == [n |-> 0, d |-> 0].  Floating-point rounding is not modelled. *)
(*  - A string id is the sequence of its ":"-free segments, so "a:1" is    *)
(*    <<"a", "1">> and String.split(":") is the identity on the sequence.  *)
(*  - One step of the model is one JavaScript task (an event handler or    *)
(*    the continuation of an await) together with the React render that    *)
(*    commits the state updates the task batched (React 18 createRoot,     *)
(*    index.tsx:9).                                                        *)
(***************************************************************************)
EXTENDS Integers, Sequences, FiniteSets, TLC

VARIABLES
    prompt,             \* App.tsx:48  useState(DEFAULT_PROMPT)
    plan,               \* App.tsx:49  useState<Plan>
    selection,          \* App.tsx:59  useState<Selection>
    view,               \* App.tsx:60  useState<ViewState>
    isGenerating,       \* App.tsx:61  useState(false)
    ioJson,             \* App.tsx:62  useState("")
    newWallLengthM,     \* App.tsx:65  useState(3)
    newWallOrientation, \* App.tsx:66  useState("horizontal")
    dragRef,            \* App.tsx:68  useRef<DragState>(null)
    pending,            \* the generatePlanFromText promises not yet settled
    crashed,            \* a render threw: React unmounted the root
    lastEvent,          \* history: the last task run and its input
    nEdits,             \* history: number of geometric edits so far
    call                \* a call of an exported function: its arguments and result

vars == <<prompt, plan, selection, view, isGenerating, ioJson, newWallLengthM,
          newWallOrientation, dragRef, pending, crashed, lastEvent, nEdits, call>>

---------------------------------------------------------------------------
(* Bounds of the model *)

MaxEdits == 1
MaxPick == 1

---------------------------------------------------------------------------
(* Numbers *)

RECURSIVE Gcd(_, _)
Gcd(a, b) == IF b = 0 THEN a ELSE Gcd(b, a % b)

Abs(i) == IF i < 0 THEN -i ELSE i

NaN == [n |-> 0, d |-> 0]

IsFinite(r) == r.d # 0

\* The rational n/d in lowest terms; a zero denominator is a non-finite result.
Rat(n, d) ==
    IF d = 0 THEN NaN
    ELSE LET g == Gcd(Abs(n), Abs(d))
             s == IF d < 0 THEN -1 ELSE 1
         IN  [n |-> (s * n) \div g, d |-> (s * d) \div g]

Num(i) == [n |-> i, d |-> 1]

RAdd(a, b) == IF IsFinite(a) /\ IsFinite(b) THEN Rat(a.n * b.d + b.n * a.d, a.d * b.d) ELSE NaN
RSub(a, b) == IF IsFinite(a) /\ IsFinite(b) THEN Rat(a.n * b.d - b.n * a.d, a.d * b.d) ELSE NaN
RMul(a, b) == IF IsFinite(a) /\ IsFinite(b) THEN Rat(a.n * b.n, a.d * b.d) ELSE NaN
RDiv(a, b) == IF IsFinite(a) /\ IsFinite(b) THEN Rat(a.n * b.d, a.d * b.n) ELSE NaN

\* a < b, a <= b, a > b: false when either side is NaN, as in JavaScript.
RLt(a, b) == IsFinite(a) /\ IsFinite(b) /\ a.n * b.d < b.n * a.d
RLe(a, b) == IsFinite(a) /\ IsFinite(b) /\ a.n * b.d <= b.n * a.d
RGt(a, b) == RLt(b, a)

\* Math.max / Math.min: NaN if either argument is NaN.
MathMax(a, b) == IF ~IsFinite(a) \/ ~IsFinite(b) THEN NaN ELSE IF RLt(a, b) THEN b ELSE a
MathMin(a, b) == IF ~IsFinite(a) \/ ~IsFinite(b) THEN NaN ELSE IF RLt(b, a) THEN b ELSE a

\* Math.round: the nearest integer, ties towards +Infinity: floor(x + 1/2).
MathRound(r) == IF IsFinite(r) THEN Num((2 * r.n + r.d) \div (2 * r.d)) ELSE NaN

---------------------------------------------------------------------------
(* geometry.ts (the second part of types.ts) *)

Pt(x, y) == [x |-> x, y |-> y]
IPt(i, j) == Pt(Num(i), Num(j))

clamp(n, lo, hi) == MathMax(lo, MathMin(hi, n))

\* Mutant: Math.floor in place of Math.round.
snapToGrid_floor(p, grid) ==
    LET fl(r) == IF IsFinite(r) THEN Num(r.n \div r.d) ELSE NaN
    IN  Pt(RMul(fl(RDiv(p.x, grid)), grid), RMul(fl(RDiv(p.y, grid)), grid))

snapToGrid(p, grid) ==
    Pt(RMul(MathRound(RDiv(p.x, grid)), grid), RMul(MathRound(RDiv(p.y, grid)), grid))

metersToPx(m, scalePxPerM) == RMul(m, scalePxPerM)

pxToMeters(px, scalePxPerM) == RDiv(px, scalePxPerM)


---------------------------------------------------------------------------
(* types.ts: Wall, SvgAsset, Plan, Selection, ViewState *)

Wall(id, a, b) == [id |-> id, a |-> a, b |-> b]

\* A Plan value as the program holds it.  walls / assets are the elements when
\* the field is an array; wallsIs / assetsIs say what the field is:
\* "array", "absent" (undefined) or "other" (a value that is not a sequence).
PlanOf(walls, assets) ==
    [walls |-> walls, assets |-> assets, wallsIs |-> "array", assetsIs |-> "array"]

NoSelection == [type |-> "none"]
WallSel(id) == [type |-> "wall", id |-> id]
AssetSel(id) == [type |-> "asset", id |-> id]

ViewOf(x, y, scale) == [x |-> x, y |-> y, scale |-> scale]

NoDrag == [mode |-> "none"]

\* No exported function is being called on its own.
NoCall == [fn |-> "none"]

Range(s) == {s[i] : i \in DOMAIN s}

WallIds(p) == {w.id : w \in Range(p.walls)}
AssetIds(p) == {a.id : a \in Range(p.assets)}

---------------------------------------------------------------------------
(* App.tsx: module constants and the initial state *)

GRID == 20
SCALE_PX_PER_M == 100
DEFAULT_PROMPT == "Design a 1-bed flat"

InitialPlan ==
    PlanOf(<< Wall(<<"w1">>, IPt(100, 100), IPt(700, 100)),
              Wall(<<"w2">>, IPt(700, 100), IPt(700, 500)),
              Wall(<<"w3">>, IPt(700, 500), IPt(100, 500)),
              Wall(<<"w4">>, IPt(100, 500), IPt(100, 100)),
              Wall(<<"w5">>, IPt(400, 100), IPt(400, 500)) >>,
           << >>)

InitialView == ViewOf(Num(0), Num(0), Num(1))

\* uid(prefix): prefix + "_" + a random base-36 suffix.
RandomSuffixes == {"k3x9q", "p07af"}
uid(prefix, rnd) == << prefix \o "_" \o rnd >>

---------------------------------------------------------------------------
(* svgParser.ts *)

\* An SVG source text, by what DOMParser and the attribute reads make of it:
\* viewBox is the attribute's tokens as Number() reads them (<<>>: no
\* attribute), width / height are what parseFloat reads (NaN: none), children
\* are the elements under <svg>, each with the tags of its descendants.
SvgText(parsererror, hasSvg, viewBox, width, height, children) ==
    [parsererror |-> parsererror, hasSvg |-> hasSvg, viewBox |-> viewBox,
     width |-> width, height |-> height, children |-> children]

SvgNode(tag, kids) == [tag |-> tag, kids |-> kids]

NotScriptTag(t) == t # "script"
NotScriptNode(n) == n.tag # "script"

\* Mutant: only the script elements directly under <svg> are removed.
RemoveScripts_topLevel(children) == SelectSeq(children, NotScriptNode)

\* svgEl.querySelectorAll("script").forEach((n) => n.remove())
RemoveScripts(children) ==
    LET kept == SelectSeq(children, NotScriptNode)
    IN  [i \in DOMAIN kept |-> SvgNode(kept[i].tag, SelectSeq(kept[i].kids, NotScriptTag))]

SvgThrows == [ok |-> FALSE]

\* Mutant: the width / height attributes are preferred to the viewBox.
parseSvgText_attrFirst(svg) ==
    IF svg.parsererror \/ ~svg.hasSvg THEN SvgThrows
    ELSE
    LET vb == svg.viewBox
        vbOk == Len(vb) = 4 /\ \A i \in 1..4 : IsFinite(vb[i])
        vbW0 == IF vbOk THEN vb[3] ELSE Num(0)
        vbH0 == IF vbOk THEN vb[4] ELSE Num(0)
        useVb == RGt(vbW0, Num(0)) /\ RGt(vbH0, Num(0))
        useAttr == /\ IsFinite(svg.width) /\ IsFinite(svg.height)
                   /\ RGt(svg.width, Num(0)) /\ RGt(svg.height, Num(0))
        vbW == IF useAttr THEN svg.width ELSE IF useVb THEN vbW0 ELSE Num(100)
        vbH == IF useAttr THEN svg.height ELSE IF useVb THEN vbH0 ELSE Num(100)
        inner == RemoveScripts(svg.children)
    IN  IF inner = <<>> THEN SvgThrows
        ELSE [ok |-> TRUE, inner |-> inner, vbW |-> vbW, vbH |-> vbH]

parseSvgText(svg) ==
    IF svg.parsererror \/ ~svg.hasSvg THEN SvgThrows
    ELSE
    LET vb == svg.viewBox
        vbOk == Len(vb) = 4 /\ \A i \in 1..4 : IsFinite(vb[i])
        vbW0 == IF vbOk THEN vb[3] ELSE Num(0)
        vbH0 == IF vbOk THEN vb[4] ELSE Num(0)
        useVb == RGt(vbW0, Num(0)) /\ RGt(vbH0, Num(0))
        useAttr == /\ IsFinite(svg.width) /\ IsFinite(svg.height)
                   /\ RGt(svg.width, Num(0)) /\ RGt(svg.height, Num(0))
        vbW == IF useVb THEN vbW0 ELSE IF useAttr THEN svg.width ELSE Num(100)
        vbH == IF useVb THEN vbH0 ELSE IF useAttr THEN svg.height ELSE Num(100)
        inner == RemoveScripts(svg.children)
    IN  IF inner = <<>> THEN SvgThrows
        ELSE [ok |-> TRUE, inner |-> inner, vbW |-> vbW, vbH |-> vbH]

\* SYMBOLS.TV
TVSymbol ==
    [name |-> "TV",
     svg |-> SvgText(FALSE, TRUE,
                     << Num(0), Num(0), Rat(68529092, 1000000), Rat(66113729, 10000000) >>,
                     Rat(68529091, 1000000), Rat(66113729, 10000000),
                     << SvgNode("g", << "g", "rect", "rect" >>) >>),
     defaultWidthM |-> Rat(12, 10)]

---------------------------------------------------------------------------
(* planGenerator.ts *)

fallback ==
    PlanOf(<< Wall(<<"w1">>, IPt(120, 120), IPt(720, 120)),
              Wall(<<"w2">>, IPt(720, 120), IPt(720, 540)),
              Wall(<<"w3">>, IPt(720, 540), IPt(120, 540)),
              Wall(<<"w4">>, IPt(120, 540), IPt(120, 120)),
              Wall(<<"w5">>, IPt(420, 120), IPt(420, 540)) >>,
           << >>)

\* What the remote call does: fetch rejects (net = FALSE), or answers with
\* res.ok = statusOk and a body that res.json() decodes (bodyJson) to a value
\* whose plan is <<>> (absent) or <<p>>.
Response(net, statusOk, bodyJson, p) ==
    [net |-> net, statusOk |-> statusOk, bodyJson |-> bodyJson, plan |-> p]

\* !data?.plan?.walls
LacksWalls(resp) == resp.plan = <<>> \/ resp.plan[1].wallsIs = "absent"

\* Mutant: the res.ok check is missing.
generatePlanFromText_noStatusCheck(resp) ==
    IF ~resp.net THEN fallback
    ELSE IF ~resp.bodyJson THEN fallback
    ELSE IF LacksWalls(resp) THEN fallback
    ELSE resp.plan[1]

generatePlanFromText(resp) ==
    IF ~resp.net THEN fallback
    ELSE IF ~resp.statusOk THEN fallback
    ELSE IF ~resp.bodyJson THEN fallback
    ELSE IF LacksWalls(resp) THEN fallback
    ELSE resp.plan[1]

---------------------------------------------------------------------------
(* JSON.stringify / JSON.parse, App.tsx onSave and onLoadFile *)

\* JSON null where a number was written.
JsonNull == [n |-> 0, d |-> -1]

\* JSON.stringify writes a non-finite number as null.
JsonNum(r) == IF IsFinite(r) THEN r ELSE JsonNull
JsonPt(p) == Pt(JsonNum(p.x), JsonNum(p.y))
JsonWall(w) == [id |-> w.id, a |-> JsonPt(w.a), b |-> JsonPt(w.b)]
JsonAsset(a) ==
    [id |-> a.id, name |-> a.name, inner |-> a.inner,
     vbW |-> JsonNum(a.vbW), vbH |-> JsonNum(a.vbH), x |-> JsonNum(a.x), y |-> JsonNum(a.y),
     scale |-> JsonNum(a.scale), rotationDeg |-> JsonNum(a.rotationDeg)]
JsonPlan(p) ==
    [walls |-> [i \in DOMAIN p.walls |-> JsonWall(p.walls[i])],
     assets |-> [i \in DOMAIN p.assets |-> JsonAsset(p.assets[i])],
     wallsIs |-> p.wallsIs, assetsIs |-> p.assetsIs]
JsonView(v) == ViewOf(JsonNum(v.x), JsonNum(v.y), JsonNum(v.scale))

\* A file's text, by what JSON.parse makes of it: a syntax error, or a value
\* whose keys plan / view / prompt are <<>> (absent, or null) or <<value>>.
FileText(plan_, view_, prompt_) ==
    [syntax |-> "json", plan |-> plan_, view |-> view_, prompt |-> prompt_]
NotJson == [syntax |-> "error", plan |-> <<>>, view |-> <<>>, prompt |-> <<>>]
NoText == [syntax |-> "empty", plan |-> <<>>, view |-> <<>>, prompt |-> <<>>]

\* JSON.stringify({ plan, view, prompt }, null, 2)
JsonStringify(p, v, pr) == FileText(<< JsonPlan(p) >>, << JsonView(v) >>, << pr >>)

---------------------------------------------------------------------------
(* geometry.ts: dist, setLengthFromA *)

RECURSIVE ISqrtFrom(_, _)
ISqrtFrom(n, r) == IF (r + 1) * (r + 1) > n THEN r ELSE ISqrtFrom(n, r + 1)

RECURSIVE ISqrt(_)
\* floor(sqrt(n)), n >= 0
ISqrt(n) == IF n < 4 THEN ISqrtFrom(n, 0) ELSE ISqrtFrom(n, 2 * ISqrt(n \div 4))

\* Math.hypot(dx, dy): exact when the sum of squares is a perfect square of a
\* rational, else rounded down to a tenth.
MathHypot(dx, dy) ==
    IF ~IsFinite(dx) \/ ~IsFinite(dy) THEN NaN
    ELSE LET num == dx.n * dx.n * dy.d * dy.d + dy.n * dy.n * dx.d * dx.d
             den == dx.d * dy.d
             r   == ISqrt(num)
         IN  IF r * r = num THEN Rat(r, den) ELSE Rat(ISqrt(num * 100), 10 * den)

dist(a, b) == MathHypot(RSub(a.x, b.x), RSub(a.y, b.y))

\* x || 1 for a number x: 1 when x is 0 or NaN.
OrOne(x) == IF ~IsFinite(x) \/ x.n = 0 THEN Num(1) ELSE x

setLengthFromA(a, b, newLen) ==
    LET dx  == RSub(b.x, a.x)
        dy  == RSub(b.y, a.y)
        len == OrOne(MathHypot(dx, dy))
        s   == RDiv(newLen, len)
    IN  Pt(RAdd(a.x, RMul(dx, s)), RAdd(a.y, RMul(dy, s)))

---------------------------------------------------------------------------
(* App.tsx: the Plan updates *)

\* { ...o, ...patch }
Spread(o, patch) ==
    [f \in (DOMAIN o) \cup (DOMAIN patch) |-> IF f \in DOMAIN patch THEN patch[f] ELSE o[f]]

\* Mutant: a miss moves the endpoint of the first wall.
updateWallEndpoint_firstOnMiss(p, id, which, next) ==
    LET hit == \E i \in DOMAIN p.walls : p.walls[i].id = id
    IN  [p EXCEPT !.walls =
            [i \in DOMAIN p.walls |->
                IF p.walls[i].id = id \/ (~hit /\ i = 1)
                THEN [p.walls[i] EXCEPT ![which] = next] ELSE p.walls[i]]]

updateWallEndpoint(p, id, which, next) ==
    [p EXCEPT !.walls =
        [i \in DOMAIN p.walls |->
            IF p.walls[i].id = id THEN [p.walls[i] EXCEPT ![which] = next] ELSE p.walls[i]]]

updateWall(p, id, patch) ==
    [p EXCEPT !.walls =
        [i \in DOMAIN p.walls |->
            IF p.walls[i].id = id THEN Spread(p.walls[i], patch) ELSE p.walls[i]]]

updateAsset(p, id, patch) ==
    [p EXCEPT !.assets =
        [i \in DOMAIN p.assets |->
            IF p.assets[i].id = id THEN Spread(p.assets[i], patch) ELSE p.assets[i]]]

\* plan.walls.find((w) => w.id === selection.id) ?? null, as <<>> or <<wall>>
selectedWall ==
    IF selection.type # "wall" THEN <<>>
    ELSE LET hits == {i \in DOMAIN plan.walls : plan.walls[i].id = selection.id}
         IN  IF hits = {} THEN <<>>
             ELSE << plan.walls[CHOOSE i \in hits : \A j \in hits : i <= j] >>

\* The render reads plan.walls.map and plan.assets.map (App.tsx:424, 429).
RenderThrows(p) == p.wallsIs # "array" \/ p.assetsIs # "array"

---------------------------------------------------------------------------
(* The inputs of the handlers *)

\* svg.getBoundingClientRect(): the canvas lies right of the sidebar.
SvgRect == [left |-> Num(300), top |-> Num(0)]

\* Pointer positions (clientX, clientY): of a pointer-down or a wheel event,
\* and of a pointer-move.
DownPts == { IPt(617, 223) }
MovePts == { IPt(317, 23) }

\* e.deltaY of a wheel event.
WheelDeltas == { -100, 100 }

\* e.target.value of the prompt textarea.
Prompts == { "", DEFAULT_PROMPT }

\* parseFloat(v || "0") of the length inputs: "." reads as NaN.
LengthInputs == { Rat(1, 4), NaN }

Orientations == { "horizontal", "vertical" }

LoadedAsset ==
    [id |-> <<"s1">>, name |-> "TV", inner |-> << SvgNode("rect", <<>>) >>,
     vbW |-> Num(10), vbH |-> Num(5), x |-> Num(40), y |-> Num(60),
     scale |-> Num(2), rotationDeg |-> Num(0)]

\* Plan values that a file or the remote service may carry.
PlanColon ==
    PlanOf(<< Wall(<<"r", "1">>, IPt(0, 0), IPt(200, 0)),
              Wall(<<"r", "2">>, IPt(200, 0), IPt(200, 200)) >>,
           << >>)
PlanFurnished ==
    PlanOf(<< Wall(<<"k1">>, IPt(0, 0), IPt(300, 400)),
              Wall(<<"k2">>, IPt(300, 400), IPt(300, 0)) >>,
           << LoadedAsset >>)
PlanEmpty == PlanOf(<< >>, << >>)
\* A plan that breaks what the editor itself keeps: two walls with one id, and
\* an asset (with the id of LoadedAsset) of size and scale 0.
PlanUnchecked ==
    PlanOf(<< Wall(<<"d1">>, IPt(0, 0), IPt(100, 0)),
              Wall(<<"d1">>, IPt(100, 0), IPt(100, 100)) >>,
           << [LoadedAsset EXCEPT !.vbW = Num(0), !.vbH = Num(0), !.scale = Num(0),
                                  !.x = Num(0), !.y = Num(0)] >>)
PlanNoWalls ==
    [walls |-> << >>, assets |-> << >>, wallsIs |-> "absent", assetsIs |-> "absent"]
PlanWallsNotArray ==
    [walls |-> << >>, assets |-> << >>, wallsIs |-> "other", assetsIs |-> "array"]
PlanNoAssets ==
    [walls |-> << Wall(<<"g1">>, IPt(0, 0), IPt(400, 0)) >>, assets |-> << >>,
     wallsIs |-> "array", assetsIs |-> "absent"]

\* The files the user may pick in the file input.
Files ==
    { NotJson,
      FileText(<< >>, << >>, << >>),
      FileText(<< PlanNoWalls >>, << >>, << >>),
      FileText(<< PlanWallsNotArray >>, << InitialView >>, << DEFAULT_PROMPT >>),
      FileText(<< PlanColon >>, << >>, << >>),
      FileText(<< PlanUnchecked >>, << >>, << >>),
      FileText(<< PlanEmpty >>, << ViewOf(Num(40), Num(-20), Num(10)) >>, << DEFAULT_PROMPT >>) }

\* What the remote service may do with a request.
Responses ==
    { Response(FALSE, FALSE, FALSE, << >>),
      Response(TRUE, FALSE, TRUE, << PlanFurnished >>),
      Response(TRUE, TRUE, FALSE, << >>),
      Response(TRUE, TRUE, TRUE, << >>),
      Response(TRUE, TRUE, TRUE, << PlanNoWalls >>),
      Response(TRUE, TRUE, TRUE, << PlanFurnished >>),
      Response(TRUE, TRUE, TRUE, << PlanNoAssets >>) }

\* The walls and assets under the pointer of a pointer-down: the last MaxPick
\* elements of each list (the ones drawn on top).
Pickable(seq) == {i \in DOMAIN seq : i > Len(seq) - MaxPick}

Ev(name, arg) == [ev |-> name, arg |-> arg]

---------------------------------------------------------------------------
(* App.tsx: the state after construction *)

Init ==
    /\ prompt = DEFAULT_PROMPT
    /\ plan = InitialPlan
    /\ selection = WallSel(<<"w1">>)
    /\ view = InitialView
    /\ isGenerating = FALSE
    /\ ioJson = NoText
    /\ newWallLengthM = Num(3)
    /\ newWallOrientation = "horizontal"
    /\ dragRef = NoDrag
    /\ pending = << >>
    /\ crashed = FALSE
    /\ lastEvent = Ev("init", "")
    /\ nEdits = 0
    /\ call = NoCall

---------------------------------------------------------------------------
(* App.tsx: prompt, generate, load, save *)

\* <textarea onChange={(e) => setPrompt(e.target.value)}>
SetPrompt(p) ==
    /\ ~crashed
    /\ nEdits < MaxEdits
    /\ p # prompt
    /\ prompt' = p
    /\ nEdits' = nEdits + 1
    /\ lastEvent' = Ev("setPrompt", "")
    /\ UNCHANGED <<plan, selection, view, isGenerating, ioJson, newWallLengthM,
                   newWallOrientation, dragRef, pending, crashed>>
    /\ UNCHANGED call

\* Mutant: the button is not disabled while isGenerating.
handleGenerate_notDisabled ==
    /\ ~crashed
    /\ isGenerating' = TRUE
    /\ pending' = Append(pending, "request")
    /\ lastEvent' = Ev("generate", "")
    /\ UNCHANGED <<prompt, plan, selection, view, ioJson, newWallLengthM,
                   newWallOrientation, dragRef, crashed, nEdits>>
    /\ UNCHANGED call

\* handleGenerate up to its await; the button is disabled while isGenerating.
handleGenerate ==
    /\ ~crashed
    /\ ~isGenerating
    /\ isGenerating' = TRUE
    /\ pending' = Append(pending, "request")
    /\ lastEvent' = Ev("generate", "")
    /\ UNCHANGED <<prompt, plan, selection, view, ioJson, newWallLengthM,
                   newWallOrientation, dragRef, crashed, nEdits>>
    /\ UNCHANGED call

\* How the remote call went, by the branch of generatePlanFromText it takes.
ResponseKind(resp) ==
    IF ~resp.net THEN "networkError"
    ELSE IF ~resp.statusOk THEN "httpError"
    ELSE IF ~resp.bodyJson THEN "badBody"
    ELSE IF LacksWalls(resp) THEN "noWalls"
    ELSE "ok"

\* const firstWall = next.walls?.[0];
\* firstWall ? { type: "wall", id: firstWall.id } : null
FirstWallSelection(next) ==
    IF next.wallsIs = "array" /\ Len(next.walls) > 0
    THEN WallSel(next.walls[1].id) ELSE NoSelection

RemoveAt(seq, i) == [j \in 1..(Len(seq) - 1) |-> IF j < i THEN seq[j] ELSE seq[j + 1]]

\* Mutant: the selection is not repaired in the task that replaces the Plan.
handleGenerateResume_planOnly(i, resp) ==
    /\ ~crashed
    /\ i \in DOMAIN pending
    /\ LET next == generatePlanFromText(resp)
       IN  /\ plan' = next
           /\ crashed' = RenderThrows(next)
    /\ isGenerating' = FALSE
    /\ pending' = RemoveAt(pending, i)
    /\ lastEvent' = Ev("generated", ResponseKind(resp))
    /\ UNCHANGED <<prompt, selection, view, ioJson, newWallLengthM, newWallOrientation,
                   dragRef, nEdits>>
    /\ UNCHANGED call

\* Mutant: setIsGenerating(false) runs on the success path only, not in a finally.
handleGenerateResume_noFinally(i, resp) ==
    /\ ~crashed
    /\ i \in DOMAIN pending
    /\ LET next == generatePlanFromText(resp)
       IN  /\ plan' = next
           /\ selection' = FirstWallSelection(next)
           /\ crashed' = RenderThrows(next)
    /\ isGenerating' = (ResponseKind(resp) # "ok")
    /\ pending' = RemoveAt(pending, i)
    /\ lastEvent' = Ev("generated", ResponseKind(resp))
    /\ UNCHANGED <<prompt, view, ioJson, newWallLengthM, newWallOrientation,
                   dragRef, nEdits>>
    /\ UNCHANGED call

\* handleGenerate from its await on: request i settles with resp.
handleGenerateResume(i, resp) ==
    /\ ~crashed
    /\ i \in DOMAIN pending
    /\ LET next == generatePlanFromText(resp)
       IN  /\ plan' = next
           /\ selection' = FirstWallSelection(next)
           /\ crashed' = RenderThrows(next)
    /\ isGenerating' = FALSE
    /\ pending' = RemoveAt(pending, i)
    /\ lastEvent' = Ev("generated", ResponseKind(resp))
    /\ UNCHANGED <<prompt, view, ioJson, newWallLengthM, newWallOrientation,
                   dragRef, nEdits>>
    /\ UNCHANGED call

\* "" is the one falsy string.
Truthy(id) == id # << "" >>

\* parsed.plan.walls?.[0]?.id ? { type: "wall", id: parsed.plan.walls[0].id } : null
LoadedSelection(p) ==
    IF p.wallsIs = "array" /\ Len(p.walls) > 0 /\ Truthy(p.walls[1].id)
    THEN WallSel(p.walls[1].id) ELSE NoSelection

\* JSON.parse(text) throws, or !parsed?.plan
LoadThrows(file) == file.syntax # "json" \/ file.plan = << >>

\* Mutant: the view of the file is not read.
LoadedState_defaultView(file) ==
    [plan |-> file.plan[1],
     view |-> ViewOf(Num(0), Num(0), Num(1)),
     prompt |-> IF file.prompt = << >> THEN "" ELSE file.prompt[1],
     selection |-> LoadedSelection(file.plan[1])]

\* Mutant: a file without a prompt key leaves the default prompt.
LoadedState_defaultPrompt(file) ==
    [plan |-> file.plan[1],
     view |-> IF file.view = << >> THEN ViewOf(Num(0), Num(0), Num(1)) ELSE file.view[1],
     prompt |-> IF file.prompt = << >> THEN DEFAULT_PROMPT ELSE file.prompt[1],
     selection |-> LoadedSelection(file.plan[1])]

\* What onLoadFile sets from a file that passes its check.
LoadedState(file) ==
    [plan |-> file.plan[1],
     view |-> IF file.view = << >> THEN ViewOf(Num(0), Num(0), Num(1)) ELSE file.view[1],
     prompt |-> IF file.prompt = << >> THEN "" ELSE file.prompt[1],
     selection |-> LoadedSelection(file.plan[1])]

\* Mutant: the view and the prompt are reset before the file is checked.
onLoadFile_resetFirst(file) ==
    /\ ~crashed
    /\ IF LoadThrows(file)
       THEN /\ lastEvent' = Ev("load", "failed")
            /\ view' = ViewOf(Num(0), Num(0), Num(1))
            /\ prompt' = ""
            /\ UNCHANGED <<plan, selection, crashed>>
       ELSE /\ plan' = LoadedState(file).plan
            /\ view' = LoadedState(file).view
            /\ prompt' = LoadedState(file).prompt
            /\ selection' = LoadedState(file).selection
            /\ crashed' = RenderThrows(LoadedState(file).plan)
            /\ lastEvent' = Ev("load", "ok")
    /\ UNCHANGED <<isGenerating, ioJson, newWallLengthM, newWallOrientation,
                   dragRef, pending, nEdits>>
    /\ UNCHANGED call

\* onLoadFile from its await on; a rejection ends in alert(err.message).
onLoadFile(file) ==
    /\ ~crashed
    /\ IF LoadThrows(file)
       THEN /\ lastEvent' = Ev("load", "failed")
            /\ UNCHANGED <<prompt, plan, selection, view, crashed>>
       ELSE /\ plan' = LoadedState(file).plan
            /\ view' = LoadedState(file).view
            /\ prompt' = LoadedState(file).prompt
            /\ selection' = LoadedState(file).selection
            /\ crashed' = RenderThrows(LoadedState(file).plan)
            /\ lastEvent' = Ev("load", "ok")
    /\ UNCHANGED <<isGenerating, ioJson, newWallLengthM, newWallOrientation,
                   dragRef, pending, nEdits>>
    /\ UNCHANGED call

onSave ==
    /\ ~crashed
    /\ ioJson' = JsonStringify(plan, view, prompt)
    /\ lastEvent' = Ev("save", "")
    /\ UNCHANGED <<prompt, plan, selection, view, isGenerating, newWallLengthM,
                   newWallOrientation, dragRef, pending, crashed, nEdits>>
    /\ UNCHANGED call

---------------------------------------------------------------------------
(* App.tsx: the selection list and the sidebar edits *)

\* The <option> values, `wall:${w.id}` then `asset:${a.id}`, as segments.
OptionValues ==
    [i \in DOMAIN plan.walls |-> << "wall" >> \o plan.walls[i].id]
    \o [i \in DOMAIN plan.assets |-> << "asset" >> \o plan.assets[i].id]

\* const [type, id] = e.target.value.split(":")
SelectionOfValue(value) ==
    IF value[1] = "wall" THEN WallSel(<< value[2] >>)
    ELSE IF value[1] = "asset" THEN AssetSel(<< value[2] >>)
    ELSE NoSelection

\* value={selection ? `${selection.type}:${selection.id}` : ""}
SelectValue ==
    IF selection = NoSelection THEN << "" >> ELSE << selection.type >> \o selection.id

\* The option the list shows: the first one whose value is SelectValue, else
\* the first option.
ShownOption ==
    LET hits == {i \in DOMAIN OptionValues : OptionValues[i] = SelectValue}
    IN  IF hits = {} THEN 1 ELSE CHOOSE i \in hits : \A j \in hits : i <= j

\* onChange fires when the user picks an option other than the shown one.
onSelectChange(k) ==
    /\ ~crashed
    /\ k \in DOMAIN OptionValues
    /\ k # ShownOption
    /\ selection' = SelectionOfValue(OptionValues[k])
    /\ lastEvent' = Ev("select", "")
    /\ UNCHANGED <<prompt, plan, view, isGenerating, ioJson, newWallLengthM,
                   newWallOrientation, dragRef, pending, crashed, nEdits>>
    /\ UNCHANGED call

\* The length input is rendered when selection?.type === "wall" && selectedWall.
setSelectedWallLengthMeters(m) ==
    /\ ~crashed
    /\ nEdits < MaxEdits
    /\ selectedWall # << >>
    /\ LET w        == selectedWall[1]
           newLenPx == metersToPx(m, Num(SCALE_PX_PER_M))
           newB     == setLengthFromA(w.a, w.b, newLenPx)
       IN  plan' = updateWall(plan, w.id, [b |-> snapToGrid(newB, Num(GRID))])
    /\ nEdits' = nEdits + 1
    /\ lastEvent' = Ev("setLength", "")
    /\ UNCHANGED <<prompt, selection, view, isGenerating, ioJson, newWallLengthM,
                   newWallOrientation, dragRef, pending, crashed>>
    /\ UNCHANGED call

\* Mutant: a failed import clears the selection.
addSymbolOf_deselects(symbol) ==
    /\ ~crashed
    /\ nEdits < MaxEdits
    /\ \E rnd \in RandomSuffixes :
         LET parsed == parseSvgText(symbol.svg)
         IN  IF ~parsed.ok
             THEN selection' = NoSelection /\ UNCHANGED <<plan, view>>
             ELSE LET desiredWidthPx == metersToPx(symbol.defaultWidthM, Num(SCALE_PX_PER_M))
                      scale == RDiv(desiredWidthPx, parsed.vbW)
                      pos   == snapToGrid(IPt(140, 140), Num(GRID))
                      asset == [id |-> uid("asset", rnd), name |-> symbol.name,
                                inner |-> parsed.inner, vbW |-> parsed.vbW,
                                vbH |-> parsed.vbH, x |-> pos.x, y |-> pos.y,
                                scale |-> scale, rotationDeg |-> Num(0)]
                  IN  /\ plan' = [plan EXCEPT !.assets = Append(@, asset)]
                      /\ selection' = AssetSel(asset.id)
                      /\ view' = [view EXCEPT
                                    !.x = RSub(Num(600), RMul(asset.x, view.scale)),
                                    !.y = RSub(Num(400), RMul(asset.y, view.scale))]
    /\ nEdits' = nEdits + 1
    /\ lastEvent' = Ev("addSymbol", symbol.name)
    /\ UNCHANGED <<prompt, isGenerating, ioJson, newWallLengthM, newWallOrientation,
                   dragRef, pending, crashed>>
    /\ UNCHANGED call

addSymbolOf(symbol) ==
    /\ ~crashed
    /\ nEdits < MaxEdits
    /\ \E rnd \in RandomSuffixes :
         LET parsed == parseSvgText(symbol.svg)
         IN  IF ~parsed.ok
             THEN UNCHANGED <<plan, selection, view>>
             ELSE LET desiredWidthPx == metersToPx(symbol.defaultWidthM, Num(SCALE_PX_PER_M))
                      scale == RDiv(desiredWidthPx, parsed.vbW)
                      pos   == snapToGrid(IPt(140, 140), Num(GRID))
                      asset == [id |-> uid("asset", rnd), name |-> symbol.name,
                                inner |-> parsed.inner, vbW |-> parsed.vbW,
                                vbH |-> parsed.vbH, x |-> pos.x, y |-> pos.y,
                                scale |-> scale, rotationDeg |-> Num(0)]
                  IN  /\ plan' = [plan EXCEPT !.assets = Append(@, asset)]
                      /\ selection' = AssetSel(asset.id)
                      /\ view' = [view EXCEPT
                                    !.x = RSub(Num(600), RMul(asset.x, view.scale)),
                                    !.y = RSub(Num(400), RMul(asset.y, view.scale))]
    /\ nEdits' = nEdits + 1
    /\ lastEvent' = Ev("addSymbol", symbol.name)
    /\ UNCHANGED <<prompt, isGenerating, ioJson, newWallLengthM, newWallOrientation,
                   dragRef, pending, crashed>>
    /\ UNCHANGED call

\* const symbol = SYMBOLS[selectedSymbol]: TV is the only key of SYMBOLS.
addSymbol == addSymbolOf(TVSymbol)

SetNewWallLengthM(m) ==
    /\ ~crashed
    /\ nEdits < MaxEdits
    /\ m # newWallLengthM
    /\ newWallLengthM' = m
    /\ nEdits' = nEdits + 1
    /\ lastEvent' = Ev("setNewWallLength", "")
    /\ UNCHANGED <<prompt, plan, selection, view, isGenerating, ioJson,
                   newWallOrientation, dragRef, pending, crashed>>
    /\ UNCHANGED call

SetNewWallOrientation(o) ==
    /\ ~crashed
    /\ nEdits < MaxEdits
    /\ o # newWallOrientation
    /\ newWallOrientation' = o
    /\ nEdits' = nEdits + 1
    /\ lastEvent' = Ev("setNewWallOrientation", "")
    /\ UNCHANGED <<prompt, plan, selection, view, isGenerating, ioJson,
                   newWallLengthM, dragRef, pending, crashed>>
    /\ UNCHANGED call

\* x || 0 for a number x
OrZero(x) == IF ~IsFinite(x) THEN Num(0) ELSE x

\* Mutant: the new wall is put in front of the list.
addWall_prepend ==
    /\ ~crashed
    /\ nEdits < MaxEdits
    /\ \E rnd \in RandomSuffixes :
         LET lenPx == metersToPx(MathMax(Num(0), OrZero(newWallLengthM)), Num(SCALE_PX_PER_M))
             centerWorld == snapToGrid(Pt(RDiv(RSub(Num(600), view.x), view.scale),
                                          RDiv(RSub(Num(400), view.y), view.scale)),
                                       Num(GRID))
             snappedLenPx == RMul(MathRound(RDiv(lenPx, Num(GRID))), Num(GRID))
             b == IF newWallOrientation = "horizontal"
                  THEN Pt(RAdd(centerWorld.x, snappedLenPx), centerWorld.y)
                  ELSE Pt(centerWorld.x, RAdd(centerWorld.y, snappedLenPx))
             id == uid("w", rnd)
         IN  /\ plan' = [plan EXCEPT !.walls = << Wall(id, centerWorld, b) >> \o @]
             /\ selection' = WallSel(id)
    /\ nEdits' = nEdits + 1
    /\ lastEvent' = Ev("addWall", "")
    /\ UNCHANGED <<prompt, view, isGenerating, ioJson, newWallLengthM,
                   newWallOrientation, dragRef, pending, crashed>>
    /\ UNCHANGED call

addWall ==
    /\ ~crashed
    /\ nEdits < MaxEdits
    /\ \E rnd \in RandomSuffixes :
         LET lenPx == metersToPx(MathMax(Num(0), OrZero(newWallLengthM)), Num(SCALE_PX_PER_M))
             centerWorld == snapToGrid(Pt(RDiv(RSub(Num(600), view.x), view.scale),
                                          RDiv(RSub(Num(400), view.y), view.scale)),
                                       Num(GRID))
             snappedLenPx == RMul(MathRound(RDiv(lenPx, Num(GRID))), Num(GRID))
             b == IF newWallOrientation = "horizontal"
                  THEN Pt(RAdd(centerWorld.x, snappedLenPx), centerWorld.y)
                  ELSE Pt(centerWorld.x, RAdd(centerWorld.y, snappedLenPx))
             id == uid("w", rnd)
         IN  /\ plan' = [plan EXCEPT !.walls = Append(@, Wall(id, centerWorld, b))]
             /\ selection' = WallSel(id)
    /\ nEdits' = nEdits + 1
    /\ lastEvent' = Ev("addWall", "")
    /\ UNCHANGED <<prompt, view, isGenerating, ioJson, newWallLengthM,
                   newWallOrientation, dragRef, pending, crashed>>
    /\ UNCHANGED call

---------------------------------------------------------------------------
(* App.tsx: wheel and pointer handlers of the canvas *)

clientToWorld(v, client) ==
    LET sx == RSub(client.x, SvgRect.left)
        sy == RSub(client.y, SvgRect.top)
    IN  Pt(RDiv(RSub(sx, v.x), v.scale), RDiv(RSub(sy, v.y), v.scale))

scaleBy == Rat(108, 100)
MinScale == Rat(2, 10)
MaxScale == Num(6)

\* Mutant: the position is computed with the scale before clamping.
WheelView_unclampedPos(v, client, deltaY) ==
    LET pointer   == Pt(RSub(client.x, SvgRect.left), RSub(client.y, SvgRect.top))
        direction == IF deltaY > 0 THEN -1 ELSE 1
        rawScale  == RMul(v.scale, IF direction > 0 THEN scaleBy ELSE RDiv(Num(1), scaleBy))
        mousePointTo == Pt(RDiv(RSub(pointer.x, v.x), v.scale),
                           RDiv(RSub(pointer.y, v.y), v.scale))
        newPos == Pt(RSub(pointer.x, RMul(mousePointTo.x, rawScale)),
                     RSub(pointer.y, RMul(mousePointTo.y, rawScale)))
    IN  ViewOf(newPos.x, newPos.y, clamp(rawScale, MinScale, MaxScale))

\* The view that onWheel sets.
WheelView(v, client, deltaY) ==
    LET pointer   == Pt(RSub(client.x, SvgRect.left), RSub(client.y, SvgRect.top))
        direction == IF deltaY > 0 THEN -1 ELSE 1
        newScale  == clamp(RMul(v.scale, IF direction > 0 THEN scaleBy
                                         ELSE RDiv(Num(1), scaleBy)),
                           MinScale, MaxScale)
        mousePointTo == Pt(RDiv(RSub(pointer.x, v.x), v.scale),
                           RDiv(RSub(pointer.y, v.y), v.scale))
        newPos == Pt(RSub(pointer.x, RMul(mousePointTo.x, newScale)),
                     RSub(pointer.y, RMul(mousePointTo.y, newScale)))
    IN  ViewOf(newPos.x, newPos.y, newScale)

onWheel(client, deltaY) ==
    /\ ~crashed
    /\ nEdits < MaxEdits
    /\ view' = WheelView(view, client, deltaY)
    /\ nEdits' = nEdits + 1
    /\ lastEvent' = Ev("wheel", "")
    /\ UNCHANGED <<prompt, plan, selection, isGenerating, ioJson, newWallLengthM,
                   newWallOrientation, dragRef, pending, crashed>>
    /\ UNCHANGED call

\* Pointer-down on the background rect, a grid line or a wall label.
onPointerDownBackground(client) ==
    /\ ~crashed
    /\ dragRef' = [mode |-> "pan", startClient |-> client, startView |-> view]
    /\ lastEvent' = Ev("pointerDown", "background")
    /\ UNCHANGED <<prompt, plan, selection, view, isGenerating, ioJson,
                   newWallLengthM, newWallOrientation, pending, crashed, nEdits>>
    /\ UNCHANGED call

\* Mutant: pointer-down on the <line> of a wall starts a drag of its endpoint a.
onPointerDownWall_startsDrag(i) ==
    /\ ~crashed
    /\ i \in Pickable(plan.walls)
    /\ selection' = WallSel(plan.walls[i].id)
    /\ dragRef' = [mode |-> "handle", wallId |-> plan.walls[i].id, which |-> "a"]
    /\ lastEvent' = Ev("pointerDown", "wall")
    /\ UNCHANGED <<prompt, plan, view, isGenerating, ioJson, newWallLengthM,
                   newWallOrientation, pending, crashed, nEdits>>
    /\ UNCHANGED call

\* Pointer-down on the <line> of wall i.
onPointerDownWall(i) ==
    /\ ~crashed
    /\ i \in Pickable(plan.walls)
    /\ selection' = WallSel(plan.walls[i].id)
    /\ lastEvent' = Ev("pointerDown", "wall")
    /\ UNCHANGED <<prompt, plan, view, isGenerating, ioJson, newWallLengthM,
                   newWallOrientation, dragRef, pending, crashed, nEdits>>
    /\ UNCHANGED call

\* Pointer-down on the handle <circle> of endpoint `which` of wall i.
onPointerDownHandle(i, which) ==
    /\ ~crashed
    /\ i \in Pickable(plan.walls)
    /\ selection' = WallSel(plan.walls[i].id)
    /\ dragRef' = [mode |-> "handle", wallId |-> plan.walls[i].id, which |-> which]
    /\ lastEvent' = Ev("pointerDown", "handle")
    /\ UNCHANGED <<prompt, plan, view, isGenerating, ioJson, newWallLengthM,
                   newWallOrientation, pending, crashed, nEdits>>
    /\ UNCHANGED call

\* Pointer-down on the <g> of asset j.
onPointerDownAsset(j, client) ==
    /\ ~crashed
    /\ j \in Pickable(plan.assets)
    /\ selection' = AssetSel(plan.assets[j].id)
    /\ dragRef' = [mode |-> "asset", assetId |-> plan.assets[j].id,
                   startWorld |-> clientToWorld(view, client),
                   startPos |-> Pt(plan.assets[j].x, plan.assets[j].y)]
    /\ lastEvent' = Ev("pointerDown", "asset")
    /\ UNCHANGED <<prompt, plan, view, isGenerating, ioJson, newWallLengthM,
                   newWallOrientation, pending, crashed, nEdits>>
    /\ UNCHANGED call

\* The view a pan pointer-move sets.
PanView(st, client) ==
    LET dx == RSub(client.x, st.startClient.x)
        dy == RSub(client.y, st.startClient.y)
    IN  ViewOf(RAdd(st.startView.x, dx), RAdd(st.startView.y, dy), st.startView.scale)

\* Mutant: the world point is not snapped.
HandleMovePlan_noSnap(p, v, st, client) ==
    updateWallEndpoint(p, st.wallId, st.which, clientToWorld(v, client))

\* The Plan a handle pointer-move sets.
HandleMovePlan(p, v, st, client) ==
    LET world   == clientToWorld(v, client)
        snapped == snapToGrid(world, Num(GRID))
    IN  updateWallEndpoint(p, st.wallId, st.which, snapped)

\* Mutant: the delta is added to the position the asset has now.
AssetMovePlan_fromCurrent(p, v, st, client) ==
    LET world == clientToWorld(v, client)
        dx    == RSub(world.x, st.startWorld.x)
        dy    == RSub(world.y, st.startWorld.y)
        moved(a) == snapToGrid(Pt(RAdd(a.x, dx), RAdd(a.y, dy)), Num(GRID))
    IN  [p EXCEPT !.assets =
            [i \in DOMAIN p.assets |->
                IF p.assets[i].id = st.assetId
                THEN [p.assets[i] EXCEPT !.x = moved(p.assets[i]).x,
                                         !.y = moved(p.assets[i]).y]
                ELSE p.assets[i]]]

\* The Plan an asset pointer-move sets.
AssetMovePlan(p, v, st, client) ==
    LET world == clientToWorld(v, client)
        dx    == RSub(world.x, st.startWorld.x)
        dy    == RSub(world.y, st.startWorld.y)
        next  == snapToGrid(Pt(RAdd(st.startPos.x, dx), RAdd(st.startPos.y, dy)), Num(GRID))
    IN  updateAsset(p, st.assetId, [x |-> next.x, y |-> next.y])

onPointerMove(client) ==
    /\ ~crashed
    /\ IF dragRef.mode = "none"
       THEN UNCHANGED <<plan, view, nEdits>>
       ELSE /\ nEdits < MaxEdits
            /\ nEdits' = nEdits + 1
            /\ IF dragRef.mode = "pan"
               THEN view' = PanView(dragRef, client) /\ UNCHANGED plan
               ELSE IF dragRef.mode = "handle"
               THEN plan' = HandleMovePlan(plan, view, dragRef, client) /\ UNCHANGED view
               ELSE plan' = AssetMovePlan(plan, view, dragRef, client) /\ UNCHANGED view
    /\ lastEvent' = Ev("pointerMove", "")
    /\ UNCHANGED <<prompt, selection, isGenerating, ioJson, newWallLengthM,
                   newWallOrientation, dragRef, pending, crashed>>
    /\ UNCHANGED call

onPointerUp ==
    /\ ~crashed
    /\ dragRef' = NoDrag
    /\ lastEvent' = Ev("pointerUp", "")
    /\ UNCHANGED <<prompt, plan, selection, view, isGenerating, ioJson,
                   newWallLengthM, newWallOrientation, pending, crashed, nEdits>>
    /\ UNCHANGED call

\* A pointercancel or lostpointercapture event: the <svg> binds no handler
\* for either (App.tsx:582-585), so no code runs.
PointerCancel ==
    /\ ~crashed
    /\ lastEvent' = Ev("pointerCancel", "")
    /\ UNCHANGED <<prompt, plan, selection, view, isGenerating, ioJson,
                   newWallLengthM, newWallOrientation, dragRef, pending, crashed, nEdits>>
    /\ UNCHANGED call

---------------------------------------------------------------------------
(* The editor *)

Next ==
    \/ \E p \in Prompts : SetPrompt(p)
    \/ handleGenerate
    \/ \E i \in DOMAIN pending, resp \in Responses : handleGenerateResume(i, resp)
    \/ \E file \in Files : onLoadFile(file)
    \/ \E k \in DOMAIN OptionValues : onSelectChange(k)
    \/ \E m \in LengthInputs : setSelectedWallLengthMeters(m)
    \/ addSymbol
    \/ \E m \in LengthInputs : SetNewWallLengthM(m)
    \/ \E o \in Orientations : SetNewWallOrientation(o)
    \/ addWall
    \/ \E c \in DownPts, d \in WheelDeltas : onWheel(c, d)
    \/ \E c \in DownPts : onPointerDownBackground(c)
    \/ \E i \in Pickable(plan.walls) : onPointerDownWall(i)
    \/ \E i \in Pickable(plan.walls), which \in {"a", "b"} : onPointerDownHandle(i, which)
    \/ \E j \in Pickable(plan.assets), c \in DownPts : onPointerDownAsset(j, c)
    \/ \E c \in MovePts : onPointerMove(c)
    \/ onPointerUp
    \/ PointerCancel

Spec == Init /\ [][Next]_vars

---------------------------------------------------------------------------
(* Save and load: the persistence codec on its own *)

NaNWallPlan ==
    PlanOf(<< Wall(<<"w1">>, IPt(100, 100), Pt(NaN, NaN)) >>, << >>)

CodecPlans == { InitialPlan, PlanFurnished, PlanColon, PlanEmpty, NaNWallPlan }
CodecViews == { InitialView, ViewOf(Num(40), Num(-20), Num(10)), ViewOf(Rat(-25, 27), Rat(7, 2), Rat(27, 25)) }
CodecPrompts == { DEFAULT_PROMPT, "", "studio" }

InitCodec ==
    /\ prompt \in CodecPrompts
    /\ plan \in CodecPlans
    /\ selection = FirstWallSelection(plan)
    /\ view \in CodecViews
    /\ isGenerating = FALSE
    /\ ioJson = NoText
    /\ newWallLengthM = Num(3)
    /\ newWallOrientation = "horizontal"
    /\ dragRef = NoDrag
    /\ pending = << >>
    /\ crashed = FALSE
    /\ lastEvent = Ev("init", "")
    /\ nEdits = 0
    /\ call = NoCall

\* Save, edit, and load the text that was saved.
NextCodec ==
    \/ onSave
    \/ ioJson # NoText /\ onLoadFile(ioJson)
    \/ \E p \in Prompts : SetPrompt(p)
    \/ \E c \in DownPts, d \in WheelDeltas : onWheel(c, d)
    \/ addWall

SpecCodec == InitCodec /\ [][NextCodec]_vars

---------------------------------------------------------------------------
(* The exported functions on their own: the arguments are drawn in the
   initial state and one step applies the function to them *)

\* Plans, ids (present and missing), endpoints and patches for the updaters.
CallPlans == { InitialPlan, PlanFurnished, PlanColon, PlanEmpty }
CallIds == { <<"w1">>, <<"k2">>, <<"s1">>, <<"r">>, <<"zz">> }
WallPatches == { [b |-> IPt(40, 0)], [a |-> IPt(20, 20), b |-> IPt(20, 80)] }
AssetPatches == { [x |-> Num(100), y |-> Num(-20)], [scale |-> Num(3)] }

UpdateWallEndpointCalls ==
    { [fn |-> "updateWallEndpoint", plan |-> p, id |-> id, which |-> which,
       next |-> IPt(20, 20), out |-> << >>] :
      p \in CallPlans, id \in CallIds, which \in {"a", "b"} }
UpdateWallCalls ==
    { [fn |-> "updateWall", plan |-> p, id |-> id, patch |-> patch, out |-> << >>] :
      p \in CallPlans, id \in CallIds, patch \in WallPatches }
UpdateAssetCalls ==
    { [fn |-> "updateAsset", plan |-> p, id |-> id, patch |-> patch, out |-> << >>] :
      p \in CallPlans, id \in CallIds, patch \in AssetPatches }

\* Anchors, offsets b - a whose length is rational, and lengths.
Anchors == { IPt(0, 0), IPt(100, 100) }
Offsets == { IPt(0, 0), IPt(10, 0), IPt(3, 4), IPt(0, -7), IPt(-6, 8) }
Lengths == { Num(0), Num(25), Rat(5, 2), Num(300) }

SetLengthCalls ==
    { [fn |-> "setLengthFromA", a |-> a, b |-> Pt(RAdd(a.x, d.x), RAdd(a.y, d.y)),
       newLen |-> len, out |-> << >>] :
      a \in Anchors, d \in Offsets, len \in Lengths }

SnapPoints ==
    { IPt(11, 29), IPt(17, 23), IPt(-10, 10), Pt(Rat(-31, 2), Rat(7, 3)), IPt(0, 0),
      IPt(30, -50) }
Grids == { Num(10), Num(20), Rat(1, 2), Num(3) }

SnapCalls ==
    { [fn |-> "snapToGrid", p |-> p, grid |-> g, out |-> << >>] :
      p \in SnapPoints, g \in Grids }

\* SVG sources: viewBox tokens, width / height as parseFloat reads them, and
\* the elements under <svg>.
ViewBoxes ==
    { << >>, << Num(0), Num(0), Num(10), Num(5) >>, << Num(0), Num(0), Num(0), Num(5) >>,
      << Num(0), Num(0), Num(-10), Num(5) >>, << Num(0), Num(0), Num(10) >>,
      << Num(0), Num(0), NaN, Num(5) >> }
SizeAttrs ==
    { << NaN, NaN >>, << Num(30), Num(40) >>, << Num(30), Num(0) >>,
      << Num(-3), Num(4) >>, << Num(30), NaN >> }
Contents ==
    { << >>, << SvgNode("rect", << >>) >>, << SvgNode("script", << >>) >>,
      << SvgNode("script", << >>), SvgNode("rect", << >>) >>,
      << SvgNode("g", << "script", "rect" >>) >>,
      << SvgNode("script", << >>), SvgNode("script", << "rect" >>) >> }
SvgTexts ==
    { SvgText(FALSE, TRUE, vb, sz[1], sz[2], ch) :
        vb \in ViewBoxes, sz \in SizeAttrs, ch \in Contents }
    \cup { SvgText(TRUE, TRUE, << >>, NaN, NaN, << >>),
           SvgText(FALSE, FALSE, << >>, NaN, NaN, << >>),
           TVSymbol.svg }

ParseCalls == { [fn |-> "parseSvgText", svg |-> svg, out |-> << >>] : svg \in SvgTexts }

InitCalls ==
    /\ prompt = DEFAULT_PROMPT
    /\ plan = InitialPlan
    /\ selection = WallSel(<<"w1">>)
    /\ view = InitialView
    /\ isGenerating = FALSE
    /\ ioJson = NoText
    /\ newWallLengthM = Num(3)
    /\ newWallOrientation = "horizontal"
    /\ dragRef = NoDrag
    /\ pending = << >>
    /\ crashed = FALSE
    /\ lastEvent = Ev("init", "")
    /\ nEdits = 0
    /\ call \in UpdateWallEndpointCalls \cup UpdateWallCalls \cup UpdateAssetCalls
                \cup SetLengthCalls \cup SnapCalls \cup ParseCalls

\* The call of fn has not returned yet.
Called(fn) == call.fn = fn /\ call.out = << >>

Return(value) ==
    /\ call' = [call EXCEPT !.out = << value >>]
    /\ UNCHANGED <<prompt, plan, selection, view, isGenerating, ioJson, newWallLengthM,
                   newWallOrientation, dragRef, pending, crashed, lastEvent, nEdits>>

CallUpdateWallEndpoint ==
    /\ Called("updateWallEndpoint")
    /\ Return(updateWallEndpoint(call.plan, call.id, call.which, call.next))

CallUpdateWall ==
    /\ Called("updateWall")
    /\ Return(updateWall(call.plan, call.id, call.patch))

CallUpdateAsset ==
    /\ Called("updateAsset")
    /\ Return(updateAsset(call.plan, call.id, call.patch))

CallSetLengthFromA ==
    /\ Called("setLengthFromA")
    /\ Return(setLengthFromA(call.a, call.b, call.newLen))

CallSnapToGrid ==
    /\ Called("snapToGrid")
    /\ Return(snapToGrid(call.p, call.grid))

CallParseSvgText ==
    /\ Called("parseSvgText")
    /\ Return(parseSvgText(call.svg))

NextCalls ==
    \/ CallUpdateWallEndpoint
    \/ CallUpdateWall
    \/ CallUpdateAsset
    \/ CallSetLengthFromA
    \/ CallSnapToGrid
    \/ CallParseSvgText

SpecCalls == InitCalls /\ [][NextCalls]_vars

\* The call of fn has returned.
Returned(fn) == call.fn = fn /\ call.out # << >>

---------------------------------------------------------------------------
(* Pan and zoom on their own: a session of pointer and wheel events on the
   background, with a budget of PanEdits view changes *)

\* The count of edits starts below 0 by what PanEdits allows beyond MaxEdits.
PanEdits == 3

InitPan ==
    /\ prompt = DEFAULT_PROMPT
    /\ plan = InitialPlan
    /\ selection = WallSel(<<"w1">>)
    /\ view = InitialView
    /\ isGenerating = FALSE
    /\ ioJson = NoText
    /\ newWallLengthM = Num(3)
    /\ newWallOrientation = "horizontal"
    /\ dragRef = NoDrag
    /\ pending = << >>
    /\ crashed = FALSE
    /\ lastEvent = Ev("init", "")
    /\ nEdits = MaxEdits - PanEdits
    /\ call = NoCall

NextPan ==
    \/ \E c \in DownPts : onPointerDownBackground(c)
    \/ \E c \in DownPts, d \in WheelDeltas : onWheel(c, d)
    \/ \E c \in MovePts : onPointerMove(c)
    \/ onPointerUp

SpecPan == InitPan /\ [][NextPan]_vars

---------------------------------------------------------------------------
(* add-symbol over symbol sources that parse and that do not *)

\* Entries a SYMBOLS table may hold: the TV, a source that is not XML, a
\* source without an <svg> element, and a source that holds only a script.
SymbolSources ==
    { TVSymbol,
      [name |-> "NotXml", svg |-> SvgText(TRUE, TRUE, << >>, NaN, NaN, << >>),
       defaultWidthM |-> Num(1)],
      [name |-> "NoSvg", svg |-> SvgText(FALSE, FALSE, << >>, NaN, NaN, << >>),
       defaultWidthM |-> Num(1)],
      [name |-> "ScriptOnly",
       svg |-> SvgText(FALSE, TRUE, << Num(0), Num(0), Num(10), Num(5) >>, NaN, NaN,
                       << SvgNode("script", << >>) >>),
       defaultWidthM |-> Num(1)] }

NextImport ==
    \/ \E symbol \in SymbolSources : addSymbolOf(symbol)
    \/ \E file \in Files : onLoadFile(file)
    \/ \E k \in DOMAIN OptionValues : onSelectChange(k)
    \/ handleGenerate
    \/ \E i \in DOMAIN pending, resp \in Responses : handleGenerateResume(i, resp)
    \/ \E c \in DownPts, d \in WheelDeltas : onWheel(c, d)

SpecImport == Init /\ [][NextImport]_vars

---------------------------------------------------------------------------
(* Generation under a remote call that settles *)

NextLive ==
    \/ \E p \in Prompts : SetPrompt(p)
    \/ handleGenerate
    \/ \E i \in DOMAIN pending, resp \in Responses : handleGenerateResume(i, resp)
    \/ \E file \in Files : onLoadFile(file)
    \/ \E k \in DOMAIN OptionValues : onSelectChange(k)
    \/ \E i \in Pickable(plan.walls), which \in {"a", "b"} : onPointerDownHandle(i, which)
    \/ onPointerUp

\* The promise of generatePlanFromText settles (fetch resolves or rejects), and
\* the event loop then runs the rest of handleGenerate.
SpecLive ==
    /\ Init
    /\ [][NextLive]_vars
    /\ WF_vars(\E i \in DOMAIN pending, resp \in Responses : handleGenerateResume(i, resp))

---------------------------------------------------------------------------
(* Properties *)

Failed == {"networkError", "httpError", "badBody", "noWalls"}

\* C1: in every reachable state the selection is none or names an id that
\* exists in the current plan: a wall selection the id of a wall of
\* plan.walls, an asset selection the id of an asset of plan.assets.
SelectionValid ==
    ~crashed =>
        \/ selection = NoSelection
        \/ selection.type = "wall" /\ selection.id \in WallIds(plan)
        \/ selection.type = "asset" /\ selection.id \in AssetIds(plan)

\* C2: right after a pointer-up event or a pointer-capture loss (cancel) no
\* drag is active, so a later pointer-move cannot edit the plan or the view.
ReleaseEndsDrag ==
    lastEvent.ev \in {"pointerUp", "pointerCancel"} => dragRef = NoDrag

\* C3: a pointer-down that arrives while a drag is active leaves the drag
\* state unchanged.
PointerDownOnlyFromIdle ==
    [][(lastEvent'.ev = "pointerDown" /\ dragRef # NoDrag) => dragRef' = dragRef]_vars

\* C4: in every reachable state view.scale lies in [0.2, 6].
ScaleInRange ==
    ~crashed => RLe(MinScale, view.scale) /\ RLe(view.scale, MaxScale)

\* C5: at most one plan-generation request is in flight at any time.
AtMostOneInFlight == Len(pending) <= 1

\* C5 witness: a request is in flight and the generate button is disabled.
OneInFlight == Len(pending) = 1 /\ isGenerating /\ lastEvent.ev # "generate"

\* C6: the step that completes a generation request replaces the plan and
\* repairs the selection together: in the state it leaves, the selection is
\* the one computed from the plan it set.
GeneratedAtomically ==
    lastEvent.ev = "generated" => selection = FirstWallSelection(plan) /\ ~isGenerating

\* C6 witness: a completion replaced the plan and moved the selection to the
\* first wall of the generated plan.
GeneratedFurnished ==
    /\ lastEvent = Ev("generated", "ok")
    /\ plan = PlanFurnished
    /\ selection = WallSel(<<"k1">>)

\* C7: generatePlanFromText returns the fallback plan when the call fails at
\* the network level, answers with a non-success status, or answers with a
\* body that lacks plan.walls, and the plan of the editor after such a
\* request is the fallback.
FallbackOnFailure ==
    /\ \A resp \in Responses :
          ResponseKind(resp) \in Failed => generatePlanFromText(resp) = fallback
    /\ (lastEvent.ev = "generated" /\ lastEvent.arg \in Failed)
          => (plan = fallback /\ ~crashed)

\* C7 witness: a request answered with a non-success status has completed and
\* the plan is the fallback.
FellBackOnStatus == lastEvent = Ev("generated", "httpError") /\ plan = fallback

\* C8: a document whose decoded value has no plan.walls sequence is never
\* accepted as the new plan.
LoadedPlanHasWalls == lastEvent = Ev("load", "ok") => plan.wallsIs = "array"

\* C9: a load that fails leaves plan, view, prompt and selection as they were;
\* a load that succeeds replaces the four together by what the file holds.
FailedLoadKeepsState ==
    [][/\ lastEvent' = Ev("load", "failed")
          => (plan' = plan /\ view' = view /\ prompt' = prompt /\ selection' = selection)
       /\ lastEvent' = Ev("load", "ok")
          => \E file \in Files :
                /\ ~LoadThrows(file)
                /\ plan' = LoadedState(file).plan
                /\ view' = LoadedState(file).view
                /\ prompt' = LoadedState(file).prompt
                /\ selection' = LoadedState(file).selection]_vars

\* C9 witness: a load has failed in a session whose view was edited.
FailedLoadAfterEdit ==
    /\ lastEvent = Ev("load", "failed")
    /\ view # InitialView
    /\ plan = InitialPlan

\* A triple that JSON can carry: the plan has its two arrays and every
\* number is finite.
WellFormed(p, v, pr) ==
    /\ p.wallsIs = "array" /\ p.assetsIs = "array"
    /\ \A w \in Range(p.walls) :
          IsFinite(w.a.x) /\ IsFinite(w.a.y) /\ IsFinite(w.b.x) /\ IsFinite(w.b.y)
    /\ \A a \in Range(p.assets) :
          /\ IsFinite(a.vbW) /\ IsFinite(a.vbH) /\ IsFinite(a.x) /\ IsFinite(a.y)
          /\ IsFinite(a.scale) /\ IsFinite(a.rotationDeg)
    /\ IsFinite(v.x) /\ IsFinite(v.y) /\ IsFinite(v.scale)

LoadDefaults ==
    [][lastEvent' = Ev("load", "ok") =>
          \E file \in Files :
             /\ file.syntax = "json" /\ file.plan # << >>
             /\ plan' = file.plan[1]
             /\ view' = (IF file.view = << >> THEN ViewOf(Num(0), Num(0), Num(1))
                         ELSE file.view[1])
             /\ prompt' = (IF file.prompt = << >> THEN "" ELSE file.prompt[1])]_vars

\* C11 witness: the file that holds only the plan with walls "r:1" and "r:2"
\* was loaded, and the view and the prompt are the defaults.
LoadedPlanOnly ==
    /\ lastEvent = Ev("load", "ok")
    /\ plan = PlanColon
    /\ view = ViewOf(Num(0), Num(0), Num(1))
    /\ prompt = ""

\* C12: updateWallEndpoint, updateWall and updateAsset return a plan equal to
\* their input when the id is not the id of any wall (resp. asset) of it.
NoOpOnMiss ==
    /\ (Returned("updateWallEndpoint") /\ call.id \notin WallIds(call.plan))
          => call.out[1] = call.plan
    /\ (Returned("updateWall") /\ call.id \notin WallIds(call.plan))
          => call.out[1] = call.plan
    /\ (Returned("updateAsset") /\ call.id \notin AssetIds(call.plan))
          => call.out[1] = call.plan

\* C12 witness: updateWallEndpoint was applied with the id "r" to the plan whose
\* walls are "r:1" and "r:2" and returned that plan.
MissReturnedInput ==
    /\ Returned("updateWallEndpoint")
    /\ call.plan = PlanColon
    /\ call.id = <<"r">>
    /\ call.out[1] = PlanColon

\* C13: setLengthFromA(a, b, L) with L >= 0 returns a point at distance L from
\* a, on the ray from a through b when a # b, and also at distance L from a
\* when a = b.
LengthIsSet ==
    (Returned("setLengthFromA") /\ RLe(Num(0), call.newLen)) =>
        LET o  == call.out[1]
            dx == RSub(call.b.x, call.a.x)
            dy == RSub(call.b.y, call.a.y)
            ex == RSub(o.x, call.a.x)
            ey == RSub(o.y, call.a.y)
        IN  /\ dist(call.a, o) = call.newLen
            /\ call.a # call.b =>
                  /\ RSub(RMul(dx, ey), RMul(dy, ex)) = Num(0)
                  /\ RLe(Num(0), RAdd(RMul(dx, ex), RMul(dy, ey)))

\* |r|
RAbs(r) == IF IsFinite(r) THEN [n |-> Abs(r.n), d |-> r.d] ELSE NaN

\* C14: snapToGrid(p, g) returns on each axis the multiple of g nearest to the
\* coordinate of p ((11,29) with g = 10 gives (10,30)), and snapping its
\* result again returns the same point.
SnapNearestIdempotent ==
    /\ snapToGrid(IPt(11, 29), Num(10)) = IPt(10, 30)
    /\ Returned("snapToGrid") =>
          LET o == call.out[1]
              g == call.grid
          IN  /\ RDiv(o.x, g).d = 1 /\ RDiv(o.y, g).d = 1
              /\ RLe(RMul(Num(2), RAbs(RSub(o.x, call.p.x))), g)
              /\ RLe(RMul(Num(2), RAbs(RSub(o.y, call.p.y))), g)
              /\ snapToGrid(o, g) = o

\* C14 witness: (11,29) was snapped to the grid of 10 and gave (10,30).
SnappedExample ==
    /\ Returned("snapToGrid")
    /\ call.p = IPt(11, 29)
    /\ call.grid = Num(10)
    /\ call.out[1] = IPt(10, 30)

\* C15: parseSvgText takes the size from components 3 and 4 of the viewBox
\* when both are positive, else from the width / height attributes when both
\* are positive, else 100 x 100; the size never makes it throw, and vbW and
\* vbH are always positive.
SizeResolved ==
    Returned("parseSvgText") =>
        LET svg == call.svg
            o   == call.out[1]
            vb  == svg.viewBox
            vbPositive == /\ Len(vb) = 4
                          /\ \A i \in 1..4 : IsFinite(vb[i])
                          /\ RGt(vb[3], Num(0)) /\ RGt(vb[4], Num(0))
            attrPositive == RGt(svg.width, Num(0)) /\ RGt(svg.height, Num(0))
        IN  /\ ~o.ok => \/ svg.parsererror
                        \/ ~svg.hasSvg
                        \/ \A n \in Range(svg.children) : n.tag = "script"
            /\ o.ok =>
                  /\ RGt(o.vbW, Num(0)) /\ RGt(o.vbH, Num(0))
                  /\ vbPositive => (o.vbW = vb[3] /\ o.vbH = vb[4])
                  /\ (~vbPositive /\ attrPositive)
                        => (o.vbW = svg.width /\ o.vbH = svg.height)
                  /\ (~vbPositive /\ ~attrPositive)
                        => (o.vbW = Num(100) /\ o.vbH = Num(100))

\* C15 witness: a source with viewBox "0 0 10 5" and width 30, height 40 was
\* parsed to vbW = 10, vbH = 5.
ViewBoxPreferred ==
    /\ Returned("parseSvgText")
    /\ call.svg.viewBox = << Num(0), Num(0), Num(10), Num(5) >>
    /\ call.svg.width = Num(30)
    /\ call.out[1].ok
    /\ call.out[1].vbW = Num(10)
    /\ call.out[1].vbH = Num(5)

\* C16: the fragment parseSvgText returns holds no script element at any
\* depth and is not empty, and a source whose only content is script
\* elements makes it throw.
NoScriptReturned ==
    Returned("parseSvgText") =>
        LET o == call.out[1]
        IN  /\ o.ok =>
                  /\ o.inner # << >>
                  /\ \A n \in Range(o.inner) :
                        n.tag # "script" /\ "script" \notin Range(n.kids)
            /\ (\A n \in Range(call.svg.children) : n.tag = "script") => ~o.ok

\* C16 witness: a group holding a script and a rect was returned without the
\* script.
NestedScriptRemoved ==
    /\ Returned("parseSvgText")
    /\ call.svg.children = << SvgNode("g", << "script", "rect" >>) >>
    /\ call.out[1].ok
    /\ call.out[1].inner = << SvgNode("g", << "rect" >>) >>

\* C17: in every reachable state every asset of the plan has vbW > 0,
\* vbH > 0 and scale > 0.
AssetsPositive ==
    ~crashed =>
        \A a \in Range(plan.assets) :
            RGt(a.vbW, Num(0)) /\ RGt(a.vbH, Num(0)) /\ RGt(a.scale, Num(0))

\* C18: in every reachable state no two walls of the plan share an id.
WallIdsUnique ==
    ~crashed =>
        \A i, j \in DOMAIN plan.walls : plan.walls[i].id = plan.walls[j].id => i = j

\* The other endpoint.
Other(which) == IF which = "a" THEN "b" ELSE "a"

AssetDragFromCaptured ==
    [][(lastEvent'.ev = "pointerMove" /\ dragRef.mode = "asset") =>
          \E c \in MovePts :
             LET world  == clientToWorld(view, c)
                 target == snapToGrid(
                              Pt(RAdd(dragRef.startPos.x, RSub(world.x, dragRef.startWorld.x)),
                                 RAdd(dragRef.startPos.y, RSub(world.y, dragRef.startWorld.y))),
                              Num(20))
             IN  /\ DOMAIN plan'.assets = DOMAIN plan.assets
                 /\ \A j \in DOMAIN plan.assets :
                       IF plan.assets[j].id = dragRef.assetId
                       THEN plan'.assets[j]
                               = [plan.assets[j] EXCEPT !.x = target.x, !.y = target.y]
                       ELSE plan'.assets[j] = plan.assets[j]
                 /\ plan'.walls = plan.walls
                 /\ view' = view]_vars

\* C20 witness: the asset was caught at (40,60), a file then put an asset of
\* the same id at (0,0), and the pointer-move placed it by the captured
\* position, at (-260,-140).
AssetDraggedAfterLoad ==
    /\ lastEvent.ev = "pointerMove"
    /\ dragRef.mode = "asset"
    /\ dragRef.startPos = IPt(40, 60)
    /\ plan.walls = PlanUnchecked.walls
    /\ Len(plan.assets) = 1
    /\ plan.assets[1].id = dragRef.assetId
    /\ plan.assets[1].x = Num(-260)
    /\ plan.assets[1].y = Num(-140)

\* C21: a pointer-move during a pan sets view.x, view.y to the captured start
\* view's x, y plus the pointer's offset from the captured start point, leaves
\* view.scale at the value it had just before the move, and leaves the plan as
\* it was.
PanTranslatesOnly ==
    [][(lastEvent'.ev = "pointerMove" /\ dragRef.mode = "pan") =>
          /\ \E c \in MovePts :
                /\ view'.x = RAdd(dragRef.startView.x, RSub(c.x, dragRef.startClient.x))
                /\ view'.y = RAdd(dragRef.startView.y, RSub(c.y, dragRef.startClient.y))
          /\ view'.scale = view.scale
          /\ plan' = plan]_vars

Ids(seq) == [i \in DOMAIN seq |-> seq[i].id]

\* C23: endpoint drag, asset drag, length-set, pan and zoom keep plan.walls
\* and plan.assets at the same length with the same ids in the same order;
\* add-wall and add-symbol append one element at the end of their list; only
\* a generation or a load makes an element disappear.
NoDeleteNoReorder ==
    [][/\ lastEvent'.ev \in {"pointerMove", "setLength", "wheel"}
          => (Ids(plan'.walls) = Ids(plan.walls) /\ Ids(plan'.assets) = Ids(plan.assets))
       /\ lastEvent'.ev = "addWall"
          => /\ Len(plan'.walls) = Len(plan.walls) + 1
             /\ SubSeq(plan'.walls, 1, Len(plan.walls)) = plan.walls
             /\ plan'.assets = plan.assets
       /\ lastEvent'.ev = "addSymbol"
          => /\ Len(plan'.assets) = Len(plan.assets) + 1
             /\ SubSeq(plan'.assets, 1, Len(plan.assets)) = plan.assets
             /\ plan'.walls = plan.walls
       /\ lastEvent'.ev \notin {"generated", "load"}
          => /\ Len(plan'.walls) >= Len(plan.walls)
             /\ SubSeq(Ids(plan'.walls), 1, Len(plan.walls)) = Ids(plan.walls)
             /\ Len(plan'.assets) >= Len(plan.assets)
             /\ SubSeq(Ids(plan'.assets), 1, Len(plan.assets)) = Ids(plan.assets)]_vars

\* C23 witness: add-wall put a sixth wall after the five initial walls.
WallAppended ==
    /\ lastEvent.ev = "addWall"
    /\ Len(plan.walls) = 6
    /\ SubSeq(plan.walls, 1, 5) = InitialPlan.walls

\* C24: when the import of the symbol fails inside add-symbol, plan, view and
\* selection after the action equal their values before it, and the editor
\* does not crash.
FailedImportIsNoOp ==
    [][\A symbol \in SymbolSources :
          (lastEvent' = Ev("addSymbol", symbol.name) /\ ~parseSvgText(symbol.svg).ok)
             => /\ plan' = plan
                /\ view' = view
                /\ selection' = selection
                /\ ~crashed']_vars

\* C24 witness: add-symbol was run with the source that has no <svg> element,
\* on a loaded plan under a loaded view with a selection made in the list.
ImportFailed ==
    /\ lastEvent = Ev("addSymbol", "NoSvg")
    /\ plan = PlanColon
    /\ selection = WallSel(<<"r">>)
    /\ ~crashed

\* C25: a pointer-down while no drag is active, on the body of a wall selects
\* that wall and starts no drag; on an endpoint handle selects the wall and
\* starts a handle drag of that wall and endpoint; on an asset selects the
\* asset and starts an asset drag of it; on the background starts a pan and
\* leaves the selection as it was.
PointerDownDispatch ==
    [][(lastEvent'.ev = "pointerDown" /\ dragRef = NoDrag) =>
          /\ lastEvent'.arg = "wall" =>
                /\ \E i \in DOMAIN plan.walls : selection' = WallSel(plan.walls[i].id)
                /\ dragRef' = NoDrag
          /\ lastEvent'.arg = "handle" =>
                \E i \in DOMAIN plan.walls, which \in {"a", "b"} :
                   /\ selection' = WallSel(plan.walls[i].id)
                   /\ dragRef' = [mode |-> "handle", wallId |-> plan.walls[i].id,
                                  which |-> which]
          /\ lastEvent'.arg = "asset" =>
                \E j \in DOMAIN plan.assets :
                   /\ selection' = AssetSel(plan.assets[j].id)
                   /\ dragRef'.mode = "asset"
                   /\ dragRef'.assetId = plan.assets[j].id
          /\ lastEvent'.arg = "background" =>
                /\ dragRef'.mode = "pan"
                /\ selection' = selection
          /\ lastEvent'.arg \in {"wall", "handle", "asset", "background"}
          /\ plan' = plan
          /\ view' = view]_vars

\* C25 witness: a pointer-down on the body of wall w5 moved the selection from
\* w1 to w5 and no drag is active.
WallBodyPressed ==
    /\ lastEvent = Ev("pointerDown", "wall")
    /\ dragRef = NoDrag
    /\ selection = WallSel(<<"w5">>)
    /\ plan = InitialPlan

DragTargetInPlan ==
    ~crashed =>
        /\ dragRef.mode = "handle" => dragRef.wallId \in WallIds(plan)
        /\ dragRef.mode = "asset" => dragRef.assetId \in AssetIds(plan)

\* x and y are numbers and multiples of the grid size.
OnGrid(p) ==
    /\ IsFinite(p.x) /\ RDiv(p.x, Num(GRID)).d = 1
    /\ IsFinite(p.y) /\ RDiv(p.y, Num(GRID)).d = 1

\* C28: every wall endpoint an editor operation writes is on the grid: both
\* endpoints of the wall add-wall appends, the dragged endpoint after a move of
\* a handle drag, and endpoint b of the selected wall after a length-set, which
\* leaves endpoint a of that wall and every other wall unchanged.
WrittenEndpointsOnGrid ==
    [][/\ lastEvent'.ev = "addWall" =>
             /\ OnGrid(plan'.walls[Len(plan'.walls)].a)
             /\ OnGrid(plan'.walls[Len(plan'.walls)].b)
       /\ (lastEvent'.ev = "pointerMove" /\ dragRef.mode = "handle") =>
             \A i \in DOMAIN plan'.walls :
                plan'.walls[i].id = dragRef.wallId => OnGrid(plan'.walls[i][dragRef.which])
       /\ lastEvent'.ev = "setLength" =>
             /\ DOMAIN plan'.walls = DOMAIN plan.walls
             /\ \A i \in DOMAIN plan.walls :
                   IF plan.walls[i].id = selection.id
                   THEN /\ OnGrid(plan'.walls[i].b)
                        /\ plan'.walls[i].a = plan.walls[i].a
                   ELSE plan'.walls[i] = plan.walls[i]]_vars

=============================================================================
